---- MODULE Spec2Model ----
(***************************************************************************)
(* kpfp::dlxSolver: Knuth's Algorithm X with dancing links over a toroidal *)
(* sparse 0/1 matrix with primary and secondary columns.                   *)
(*                                                                         *)
(* Headers are the ids 0..p+s (h[0] is the master header), row nodes get   *)
(* the following ids in allocation order.  The link fields L, R, U, D, C   *)
(* and the header fields S, N are functions over the ids.  cover, uncover, *)
(* addRow and setColumnNumber are operators on a matrix record that walk   *)
(* the links the way the loops of the code do; search is unrolled into one *)
(* action per step between two cover/uncover calls, with an explicit call  *)
(* stack.                                                                  *)
(***************************************************************************)
EXTENDS Integers, Sequences, FiniteSets, TLC

\* Bounds of the model.
MaxCols == 4      \* p + s is at most MaxCols
MaxRows == 3      \* number of addRow calls
MaxRowLen == 2    \* number of indices passed to one addRow call

\* A value-initialised pointer (vector::resize, new node()).
NULL == -1
\* The address of addRow's local sentry node s.
SENTRY == -2

VARIABLES
    L, R, U, D,   \* node::L, R, U, D   (ids -> id)
    C,            \* node::C            (row nodes -> header)
    S, N,         \* header::S, header::N
    O,            \* dlxSolver::O, the result vector
    phase,        \* "new", "build", "search", "done": where main() is
    prim,         \* the p passed to setColumnNumber
    rows,         \* the index sequences passed to addRow, in call order
    stack,        \* the activation records of search, innermost last
    reports,      \* what the sink received: one <<k, O>> per solution(k) call
    covered,      \* columns with a cover call not yet undone, oldest first
    run,          \* 1, or 2 for the search repeated on reordered rows
    first         \* the reports of run 1, kept for run 2

vars == <<L, R, U, D, C, S, N, O, phase, prim, rows, stack, reports, covered, run, first>>

\* The matrix as one value.
Mat == [L |-> L, R |-> R, U |-> U, D |-> D, C |-> C, S |-> S]

Range(f) == {f[x] : x \in DOMAIN f}

----------------------------------------------------------------------------
\* cover (part_000:213-224, dlx.cpp:248-259)

\* cover's inner loop without j->U->D = j->D.
RECURSIVE CoverRow_HalfUnlink(_, _, _)
CoverRow_HalfUnlink(m, i, j) ==
    IF j = i THEN m
    ELSE LET m1 == [m  EXCEPT !.U[m.D[j]] = m.U[j]]
             m3 == [m1 EXCEPT !.S[m1.C[j]] = @ - 1]
         IN  CoverRow_HalfUnlink(m3, i, m3.R[j])

\* cover's inner loop unlinking j from its row as well as from its column.
RECURSIVE CoverRow_FourWay(_, _, _)
CoverRow_FourWay(m, i, j) ==
    IF j = i THEN m
    ELSE LET m1 == [m  EXCEPT !.U[m.D[j]] = m.U[j]]
             m2 == [m1 EXCEPT !.D[m1.U[j]] = m1.D[j]]
             m3 == [m2 EXCEPT !.S[m2.C[j]] = @ - 1]
             m4 == [m3 EXCEPT !.L[m3.R[j]] = m3.L[j]]
             m5 == [m4 EXCEPT !.R[m4.L[j]] = m4.R[j]]
         IN  CoverRow_FourWay(m5, i, m5.R[j])

\* The inner loop of cover: for(j=i->R; j!=i; j=j->R) unlink j vertically.
RECURSIVE CoverRow(_, _, _)
CoverRow(m, i, j) ==
    IF j = i THEN m
    ELSE LET m1 == [m  EXCEPT !.U[m.D[j]] = m.U[j]]
             m2 == [m1 EXCEPT !.D[m1.U[j]] = m1.D[j]]
             m3 == [m2 EXCEPT !.S[m2.C[j]] = @ - 1]
         IN  CoverRow(m3, i, m3.R[j])

\* The outer loop of cover ending after the first row.
CoverLoop_FirstRow(m, c, i) ==
    IF i = c THEN m ELSE CoverRow(m, i, m.R[i])

\* The outer loop of cover: for(i=c->D; i!=c; i=i->D).
RECURSIVE CoverLoop(_, _, _)
CoverLoop(m, c, i) ==
    IF i = c THEN m
    ELSE LET m1 == CoverRow(m, i, m.R[i])
         IN  CoverLoop(m1, c, m1.D[i])

\* cover running its loops twice.
Cover_Twice(m, c) ==
    LET m1 == [m  EXCEPT !.L[m.R[c]] = m.L[c]]
        m2 == [m1 EXCEPT !.R[m1.L[c]] = m1.R[c]]
        m3 == CoverLoop(m2, c, m2.D[c])
    IN  CoverLoop(m3, c, m3.D[c])

\* cover that unlinks the rows and leaves the header in the ring.
Cover_RowsOnly(m, c) == CoverLoop(m, c, m.D[c])

\* cover that takes the header out of the ring and leaves the rows alone.
Cover_HeaderOnly(m, c) ==
    LET m1 == [m  EXCEPT !.L[m.R[c]] = m.L[c]]
    IN  [m1 EXCEPT !.R[m1.L[c]] = m1.R[c]]

Cover(m, c) ==
    LET m1 == [m  EXCEPT !.L[m.R[c]] = m.L[c]]
        m2 == [m1 EXCEPT !.R[m1.L[c]] = m1.R[c]]
    IN  CoverLoop(m2, c, m2.D[c])

----------------------------------------------------------------------------
\* uncover (part_000:226-237, dlx.cpp:261-272)

\* uncover's inner loop without ++(j->C->S).
RECURSIVE UncoverRow_KeepCount(_, _, _)
UncoverRow_KeepCount(m, i, j) ==
    IF j = i THEN m
    ELSE LET m2 == [m  EXCEPT !.U[m.D[j]] = j]
             m3 == [m2 EXCEPT !.D[m2.U[j]] = j]
         IN  UncoverRow_KeepCount(m3, i, m3.L[j])

\* The inner loop of uncover: for(j=i->L; j!=i; j=j->L) relink j vertically.
RECURSIVE UncoverRow(_, _, _)
UncoverRow(m, i, j) ==
    IF j = i THEN m
    ELSE LET m1 == [m  EXCEPT !.S[m.C[j]] = @ + 1]
             m2 == [m1 EXCEPT !.U[m1.D[j]] = j]
             m3 == [m2 EXCEPT !.D[m2.U[j]] = j]
         IN  UncoverRow(m3, i, m3.L[j])

\* The outer loop of uncover: for(i=c->U; i!=c; i=i->U).
RECURSIVE UncoverLoop(_, _, _)
UncoverLoop(m, c, i) ==
    IF i = c THEN m
    ELSE LET m1 == UncoverRow(m, i, m.L[i])
         IN  UncoverLoop(m1, c, m1.U[i])

\* uncover that relinks the rows and leaves the header out of the ring.
Uncover_NoHeader(m, c) == UncoverLoop(m, c, m.U[c])

Uncover(m, c) ==
    LET m1 == UncoverLoop(m, c, m.U[c])
        m2 == [m1 EXCEPT !.R[m1.L[c]] = c]
    IN  [m2 EXCEPT !.L[m2.R[c]] = c]

----------------------------------------------------------------------------
\* setColumnNumber (part_000:159-181, dlx.cpp:161-182)

\* h.resize(n): n value-initialised headers.
ResizedHeaders(n) ==
    [L |-> [i \in 0..(n - 1) |-> NULL], R |-> [i \in 0..(n - 1) |-> NULL],
     U |-> [i \in 0..(n - 1) |-> NULL], D |-> [i \in 0..(n - 1) |-> NULL],
     S |-> [i \in 0..(n - 1) |-> 0],    N |-> [i \in 0..(n - 1) |-> 0]]

\* for(i=1; i<=p; ++i): link h[i] to the right of h[i-1], empty column.
RECURSIVE PrimaryLoop(_, _, _)
PrimaryLoop(hd, i, p) ==
    IF i > p THEN hd
    ELSE LET h1 == [hd EXCEPT !.L[i] = i - 1]
             h2 == [h1 EXCEPT !.R[h1.L[i]] = i]
             h3 == [h2 EXCEPT !.U[i] = i, !.D[i] = i, !.N[i] = i]
         IN  PrimaryLoop(h3, i + 1, p)

\* The second loop of setColumnNumber linking the headers like the first.
RECURSIVE SecondaryLoop_Linked(_, _, _)
SecondaryLoop_Linked(hd, i, sum) ==
    IF i > sum THEN hd
    ELSE LET h1 == [hd EXCEPT !.L[i] = hd.L[0], !.R[i] = 0]
             h2 == [h1 EXCEPT !.R[h1.L[i]] = i]
             h3 == [h2 EXCEPT !.L[0] = i]
             h4 == [h3 EXCEPT !.U[i] = i, !.D[i] = i, !.N[i] = i]
         IN  SecondaryLoop_Linked(h4, i + 1, sum)

\* for(; i<=sum; ++i): self-looped header, outside the master ring.
RECURSIVE SecondaryLoop(_, _, _)
SecondaryLoop(hd, i, sum) ==
    IF i > sum THEN hd
    ELSE SecondaryLoop([hd EXCEPT !.L[i] = i, !.R[i] = i, !.U[i] = i,
                                  !.D[i] = i, !.N[i] = i], i + 1, sum)

setColumnNumber(p, s) ==
    LET h0 == ResizedHeaders(p + s + 1)
        h1 == [h0 EXCEPT !.R[0] = 0]
        h2 == PrimaryLoop(h1, 1, p)
        h3 == [h2 EXCEPT !.R[p] = 0]
        h4 == [h3 EXCEPT !.L[0] = p]
    IN  SecondaryLoop(h4, p + 1, p + s)

----------------------------------------------------------------------------
\* addRow (part_000:135-157, dlx.cpp:138-159)

\* f with the fresh address n added, holding v.
Alloc(f, n, v) == [x \in DOMAIN f \cup {n} |-> IF x = n THEN v ELSE f[x]]

\* f without the address n.
Free(f, n) == [x \in DOMAIN f \ {n} |-> f[x]]

\* The address new node() returns: the ids are handed out in order.
NewNode(m) == Cardinality(DOMAIN m.L \ {SENTRY})

\* addRow's loop without ++h[hN].S.
RECURSIVE AddRowLoop_NoCount(_, _, _, _)
AddRowLoop_NoCount(m, seq, t, l) ==
    IF t > Len(seq) THEN
        LET m1 == [m  EXCEPT !.R[l] = m.R[SENTRY]]
        IN  [m1 EXCEPT !.L[m1.R[SENTRY]] = l]
    ELSE
        LET n  == NewNode(m)
            hN == seq[t]
            m0 == [m EXCEPT !.L = Alloc(@, n, NULL), !.R = Alloc(@, n, NULL),
                            !.U = Alloc(@, n, NULL), !.D = Alloc(@, n, NULL),
                            !.C = Alloc(@, n, NULL)]
            m2 == [m0 EXCEPT !.C[n] = hN]
            m3 == [m2 EXCEPT !.U[n] = m2.U[hN]]
            m4 == [m3 EXCEPT !.D[n] = hN]
            m5 == [m4 EXCEPT !.L[n] = l]
            m6 == [m5 EXCEPT !.R[l] = n]
            m7 == [m6 EXCEPT !.D[m6.U[hN]] = n]
            m8 == [m7 EXCEPT !.U[hN] = n]
        IN  AddRowLoop_NoCount(m8, seq, t + 1, n)

\* for(; it!=end; ++it): one node per index, appended at the bottom of its
\* column and to the right of l.
RECURSIVE AddRowLoop(_, _, _, _)
AddRowLoop(m, seq, t, l) ==
    IF t > Len(seq) THEN
        LET m1 == [m  EXCEPT !.R[l] = m.R[SENTRY]]
        IN  [m1 EXCEPT !.L[m1.R[SENTRY]] = l]
    ELSE
        LET n  == NewNode(m)
            hN == seq[t]
            m0 == [m EXCEPT !.L = Alloc(@, n, NULL), !.R = Alloc(@, n, NULL),
                            !.U = Alloc(@, n, NULL), !.D = Alloc(@, n, NULL),
                            !.C = Alloc(@, n, NULL)]
            m1 == [m0 EXCEPT !.S[hN] = @ + 1]
            m2 == [m1 EXCEPT !.C[n] = hN]
            m3 == [m2 EXCEPT !.U[n] = m2.U[hN]]
            m4 == [m3 EXCEPT !.D[n] = hN]
            m5 == [m4 EXCEPT !.L[n] = l]
            m6 == [m5 EXCEPT !.R[l] = n]
            m7 == [m6 EXCEPT !.D[m6.U[hN]] = n]
            m8 == [m7 EXCEPT !.U[hN] = n]
        IN  AddRowLoop(m8, seq, t + 1, n)

\* The indices of seq that exceed every index before them.
RECURSIVE Ascending(_, _, _)
Ascending(seq, t, last) ==
    IF t > Len(seq) THEN << >>
    ELSE IF seq[t] > last THEN <<seq[t]>> \o Ascending(seq, t + 1, seq[t])
         ELSE Ascending(seq, t + 1, last)

\* addRow relying on ascending input: an index that is not above the ones
\* before it gets no node.
addRow_AscendingOnly(m, seq) ==
    LET m0 == [m EXCEPT !.L = Alloc(@, SENTRY, NULL), !.R = Alloc(@, SENTRY, SENTRY)]
        m1 == AddRowLoop(m0, Ascending(seq, 1, 0), 1, SENTRY)
    IN  [m1 EXCEPT !.L = Free(@, SENTRY), !.R = Free(@, SENTRY)]

addRow(m, seq) ==
    LET m0 == [m EXCEPT !.L = Alloc(@, SENTRY, NULL), !.R = Alloc(@, SENTRY, SENTRY)]
        m1 == AddRowLoop(m0, seq, 1, SENTRY)
    IN  [m1 EXCEPT !.L = Free(@, SENTRY), !.R = Free(@, SENTRY)]

----------------------------------------------------------------------------
\* search (part_000:183-211, dlx.cpp:184-246)

\* The termination test taking a ring of one header for an empty one.
Terminated_AtMostOne(m) == m.R[0] = m.L[0]

\* if(m.R == &m && m.L == &m): the master ring is empty.
Terminated(m) == m.R[0] = 0 /\ m.L[0] = 0

\* The selection loop with j->S <= s for its test.
RECURSIVE SelectLoop_LastMin(_, _, _, _)
SelectLoop_LastMin(m, j, c, s) ==
    IF j = 0 THEN c
    ELSE IF m.S[j] <= s THEN SelectLoop_LastMin(m, m.R[j], j, m.S[j])
         ELSE SelectLoop_LastMin(m, m.R[j], c, s)

\* for(j=m.R; j!=&m; j=j->R) if(j->S < s) { s = j->S; c = j; }
RECURSIVE SelectLoop(_, _, _, _)
SelectLoop(m, j, c, s) ==
    IF j = 0 THEN c
    ELSE IF m.S[j] < s THEN SelectLoop(m, m.R[j], j, m.S[j])
         ELSE SelectLoop(m, m.R[j], c, s)

\* The selection without its loop: the first header of the ring.
SelectColumn_First(m) == m.R[0]

SelectColumn(m) == SelectLoop(m, m.R[0], m.R[0], m.S[m.R[0]])

----------------------------------------------------------------------------
\* The program: main() builds the matrix and calls search once.

\* The index sequences addRow may be given over n columns: distinct, in
\* range, in any order.
RowInputs(n) ==
    {sq \in UNION {[1..len -> 1..n] : len \in 0..MaxRowLen} :
        \A a, b \in DOMAIN sq : a # b => sq[a] # sq[b]}

\* The number of columns, p + s.
NumCols == Cardinality(DOMAIN S) - 1

Columns == 1..NumCols
Primary == 1..prim
Secondary == (prim + 1)..NumCols
Nodes == DOMAIN C

\* The activation record of a search call just entered.
Frame(k) ==
    [k |-> k, c |-> NULL, r |-> NULL, j |-> NULL, pc |-> "enter",
     entry |-> Mat, tried |-> << >>]

Top == stack[Len(stack)]

SetTop(f) == stack' = [stack EXCEPT ![Len(stack)] = f]

SetMat(m) ==
    /\ L' = m.L /\ R' = m.R /\ U' = m.U /\ D' = m.D /\ C' = m.C /\ S' = m.S

\* covered without its last occurrence of c.
RECURSIVE DropLast(_, _)
DropLast(sq, c) ==
    IF sq = << >> THEN << >>
    ELSE IF sq[Len(sq)] = c THEN SubSeq(sq, 1, Len(sq) - 1)
         ELSE Append(DropLast(SubSeq(sq, 1, Len(sq) - 1), c), sq[Len(sq)])

\* dlxSolver(): h.resize(1) creates the master header.
Init ==
    /\ L = [i \in {0} |-> NULL] /\ R = [i \in {0} |-> NULL]
    /\ U = [i \in {0} |-> NULL] /\ D = [i \in {0} |-> NULL]
    /\ C = [i \in {} |-> NULL]
    /\ S = [i \in {0} |-> 0] /\ N = [i \in {0} |-> 0]
    /\ O = [i \in {} |-> NULL]
    /\ phase = "new"
    /\ prim = 0
    /\ rows = << >>
    /\ stack = << >>
    /\ reports = << >>
    /\ covered = << >>
    /\ run = 1
    /\ first = << >>

\* a.setColumnNumber(p, s)
SetColumnNumber ==
    /\ phase = "new"
    /\ \E p \in 0..MaxCols : \E s \in 0..(MaxCols - p) :
         LET hd == setColumnNumber(p, s) IN
         /\ L' = hd.L /\ R' = hd.R /\ U' = hd.U /\ D' = hd.D
         /\ S' = hd.S /\ N' = hd.N
         /\ O' = [i \in 0..(p + s - 1) |-> NULL]
         /\ prim' = p
    /\ phase' = "build"
    /\ UNCHANGED <<C, rows, stack, reports, covered, run, first>>

\* a.addRow(cols.begin(), cols.end())
AddRow ==
    /\ phase = "build"
    /\ Len(rows) < MaxRows
    /\ \E seq \in RowInputs(NumCols) :
         /\ SetMat(addRow(Mat, seq))
         /\ rows' = Append(rows, seq)
    /\ UNCHANGED <<N, O, phase, prim, stack, reports, covered, run, first>>

\* a.search(): the top-level call, k = 0.
StartSearch ==
    /\ phase = "build"
    /\ phase' = "search"
    /\ stack' = <<Frame(0)>>
    /\ UNCHANGED <<L, R, U, D, C, S, N, O, prim, rows, reports, covered, run, first>>

\* The termination test succeeds: solution(k); return.
Solution ==
    /\ phase = "search" /\ Top.pc = "enter"
    /\ Terminated(Mat)
    /\ reports' = Append(reports, <<Top.k, O>>)
    /\ SetTop([Top EXCEPT !.pc = "exit"])
    /\ UNCHANGED <<L, R, U, D, C, S, N, O, phase, prim, rows, covered, run, first>>

\* The row loop started from the bottom, r = c->U.
Select_FromBottom ==
    /\ phase = "search" /\ Top.pc = "enter"
    /\ ~Terminated(Mat)
    /\ LET c == SelectColumn(Mat)
           m == Cover(Mat, c)
       IN  /\ SetMat(m)
           /\ SetTop([Top EXCEPT !.c = c, !.r = m.U[c], !.pc = "row"])
           /\ covered' = Append(covered, c)
    /\ UNCHANGED <<N, O, phase, prim, rows, reports, run, first>>

\* Select the column, cover(c), r = c->D.
Select ==
    /\ phase = "search" /\ Top.pc = "enter"
    /\ ~Terminated(Mat)
    /\ LET c == SelectColumn(Mat)
           m == Cover(Mat, c)
       IN  /\ SetMat(m)
           /\ SetTop([Top EXCEPT !.c = c, !.r = m.D[c], !.pc = "row"])
           /\ covered' = Append(covered, c)
    /\ UNCHANGED <<N, O, phase, prim, rows, reports, run, first>>

\* The row stored in the bottom slot, O[0] = r.
TryRow_Bottom ==
    /\ phase = "search" /\ Top.pc = "row"
    /\ Top.r # Top.c
    /\ O' = [O EXCEPT ![0] = Top.r]
    /\ SetTop([Top EXCEPT !.j = R[Top.r], !.pc = "cover",
                          !.tried = Append(@, Top.r)])
    /\ UNCHANGED <<L, R, U, D, C, S, N, phase, prim, rows, reports, covered, run, first>>

\* r != c: O[k] = r, j = r->R.
TryRow ==
    /\ phase = "search" /\ Top.pc = "row"
    /\ Top.r # Top.c
    /\ O' = [O EXCEPT ![Top.k] = Top.r]
    /\ SetTop([Top EXCEPT !.j = R[Top.r], !.pc = "cover",
                          !.tried = Append(@, Top.r)])
    /\ UNCHANGED <<L, R, U, D, C, S, N, phase, prim, rows, reports, covered, run, first>>

\* j != r: cover(j->C), j = j->R.
CoverOther ==
    /\ phase = "search" /\ Top.pc = "cover"
    /\ Top.j # Top.r
    /\ LET m == Cover(Mat, C[Top.j])
       IN  /\ SetMat(m)
           /\ SetTop([Top EXCEPT !.j = m.R[Top.j]])
    /\ covered' = Append(covered, C[Top.j])
    /\ UNCHANGED <<N, O, phase, prim, rows, reports, run, first>>

\* j == r: search(k+1).
Recurse ==
    /\ phase = "search" /\ Top.pc = "cover"
    /\ Top.j = Top.r
    /\ stack' = Append([stack EXCEPT ![Len(stack)].pc = "back"], Frame(Top.k + 1))
    /\ UNCHANGED <<L, R, U, D, C, S, N, O, phase, prim, rows, reports, covered, run, first>>

\* A search call returns to its caller, the top-level one to main().
Return ==
    /\ phase = "search" /\ Top.pc = "exit"
    /\ stack' = SubSeq(stack, 1, Len(stack) - 1)
    /\ phase' = IF Len(stack) = 1 THEN "done" ELSE "search"
    /\ UNCHANGED <<L, R, U, D, C, S, N, O, prim, rows, reports, covered, run, first>>

\* The row handle re-read from the bottom slot, r = O[0].
Back_WrongSlot ==
    /\ phase = "search" /\ Top.pc = "back"
    /\ LET r == O[0]
       IN  SetTop([Top EXCEPT !.r = r, !.c = C[r], !.j = L[r], !.pc = "uncover"])
    /\ UNCHANGED <<L, R, U, D, C, S, N, O, phase, prim, rows, reports, covered, run, first>>

\* After search(k+1): r = O[k], c = r->C, j = r->L.
Back ==
    /\ phase = "search" /\ Top.pc = "back"
    /\ LET r == O[Top.k]
       IN  SetTop([Top EXCEPT !.r = r, !.c = C[r], !.j = L[r], !.pc = "uncover"])
    /\ UNCHANGED <<L, R, U, D, C, S, N, O, phase, prim, rows, reports, covered, run, first>>

\* j != r: uncover(j->C), j = j->L.
UncoverOther ==
    /\ phase = "search" /\ Top.pc = "uncover"
    /\ Top.j # Top.r
    /\ LET m == Uncover(Mat, C[Top.j])
       IN  /\ SetMat(m)
           /\ SetTop([Top EXCEPT !.j = m.L[Top.j]])
    /\ covered' = DropLast(covered, C[Top.j])
    /\ UNCHANGED <<N, O, phase, prim, rows, reports, run, first>>

\* The row loop stepping upwards, r = r->U.
NextRow_Up ==
    /\ phase = "search" /\ Top.pc = "uncover"
    /\ Top.j = Top.r
    /\ SetTop([Top EXCEPT !.r = U[Top.r], !.pc = "row"])
    /\ UNCHANGED <<L, R, U, D, C, S, N, O, phase, prim, rows, reports, covered, run, first>>

\* j == r: the row loop steps, r = r->D.
NextRow ==
    /\ phase = "search" /\ Top.pc = "uncover"
    /\ Top.j = Top.r
    /\ SetTop([Top EXCEPT !.r = D[Top.r], !.pc = "row"])
    /\ UNCHANGED <<L, R, U, D, C, S, N, O, phase, prim, rows, reports, covered, run, first>>

\* uncover(c), and the call starts over instead of returning.
Leave_StartOver ==
    /\ phase = "search" /\ Top.pc = "row"
    /\ Top.r = Top.c
    /\ SetMat(Uncover(Mat, Top.c))
    /\ SetTop([Top EXCEPT !.pc = "enter"])
    /\ covered' = DropLast(covered, Top.c)
    /\ UNCHANGED <<N, O, phase, prim, rows, reports, run, first>>

\* The call left without uncover(c).
Leave_NoUncover ==
    /\ phase = "search" /\ Top.pc = "row"
    /\ Top.r = Top.c
    /\ SetTop([Top EXCEPT !.pc = "exit"])
    /\ UNCHANGED <<L, R, U, D, C, S, N, O, phase, prim, rows, reports, covered, run, first>>

\* r == c: uncover(c) and leave.
Leave ==
    /\ phase = "search" /\ Top.pc = "row"
    /\ Top.r = Top.c
    /\ SetMat(Uncover(Mat, Top.c))
    /\ SetTop([Top EXCEPT !.pc = "exit"])
    /\ covered' = DropLast(covered, Top.c)
    /\ UNCHANGED <<N, O, phase, prim, rows, reports, run, first>>

\* The matrix main() builds from p, s and the rows rs.
RECURSIVE AddRows(_, _, _)
AddRows(m, rs, i) ==
    IF i > Len(rs) THEN m ELSE AddRows(addRow(m, rs[i]), rs, i + 1)

Built(p, s, rs) ==
    LET hd == setColumnNumber(p, s)
    IN  AddRows([L |-> hd.L, R |-> hd.R, U |-> hd.U, D |-> hd.D,
                 C |-> [i \in {} |-> NULL], S |-> hd.S], rs, 1)

\* The orderings of the indices of sq other than sq itself.
Reorderings(sq) ==
    {pq \in [DOMAIN sq -> Range(sq)] : Range(pq) = Range(sq) /\ pq # sq}

\* main() run a second time on the same input, except that one addRow call
\* receives its indices in another order.
Reorder ==
    /\ phase = "done" /\ run = 1
    /\ \E i \in DOMAIN rows : \E pq \in Reorderings(rows[i]) :
         LET rs == [rows EXCEPT ![i] = pq] IN
         /\ rows' = rs
         /\ SetMat(Built(prim, NumCols - prim, rs))
    /\ O' = [i \in DOMAIN O |-> NULL]
    /\ first' = reports
    /\ reports' = << >>
    /\ run' = 2
    /\ phase' = "search"
    /\ stack' = <<[Frame(0) EXCEPT !.entry = Built(prim, NumCols - prim, rows')]>>
    /\ UNCHANGED <<N, prim, covered>>

Next ==
    \/ SetColumnNumber \/ AddRow \/ StartSearch
    \/ Solution \/ Select \/ TryRow \/ CoverOther \/ Recurse
    \/ Return \/ Back \/ UncoverOther \/ NextRow \/ Leave

Spec == Init /\ [][Next]_vars

\* The program followed by a second run on reordered rows.
NextReorder == Next \/ Reorder

SpecReorder == Init /\ [][NextReorder]_vars

\* The steps of search and of the calls it makes.
SearchStep ==
    \/ Solution \/ Select \/ TryRow \/ CoverOther \/ Recurse
    \/ Return \/ Back \/ UncoverOther \/ NextRow \/ Leave

\* The program is sequential: once main() has called search, the call runs
\* on for as long as it has a step to take.  This is weak fairness of
\* SearchStep, whose steps are enabled in the states with phase = "search"
\* and in no other: either the search is over infinitely often, or it takes
\* steps infinitely often.
SpecFair ==
    /\ Init /\ [][Next]_vars
    /\ ([]<>(phase # "search") \/ []<><<SearchStep>>_vars)

----------------------------------------------------------------------------
\* What the claims speak about.

\* The columns in which row i has a 1.
RowCols(i) == Range(rows[i])

\* The id of the first node of row i: the nodes follow the headers, row by row.
RECURSIVE RowBase(_)
RowBase(i) == IF i = 1 THEN NumCols + 1 ELSE RowBase(i - 1) + Len(rows[i - 1])

RowNodes(i) == RowBase(i)..(RowBase(i) + Len(rows[i]) - 1)

\* The row a node belongs to, 0 for what is no row node.
RowOfNode(n) ==
    IF \E i \in DOMAIN rows : n \in RowNodes(i)
    THEN CHOOSE i \in DOMAIN rows : n \in RowNodes(i)
    ELSE 0

\* The rows a sink invocation <<k, O>> was handed: those of O[0..k-1].
ReportRows(rep) == {RowOfNode(rep[2][i]) : i \in 0..(rep[1] - 1)}

ReportedSets(reps) == {ReportRows(reps[a]) : a \in DOMAIN reps}

\* The rows of X with a 1 in column c.
Hits(X, c) == {i \in X : c \in RowCols(i)}

\* X covers every primary column exactly once, every secondary at most once.
IsCover(X) ==
    /\ \A c \in Primary : Cardinality(Hits(X, c)) = 1
    /\ \A c \in Secondary : Cardinality(Hits(X, c)) <= 1

Searching == phase = "search" /\ stack # << >>

\* C1: whenever the sink is invoked with depth k, O[0..k-1] are nodes of k
\* pairwise distinct rows that cover every primary column exactly once and
\* every secondary column at most once.
C1_Soundness ==
    \A a \in DOMAIN reports :
        LET k == reports[a][1]
            X == ReportRows(reports[a])
        IN  /\ \A i \in 0..(k - 1) : reports[a][2][i] \in Nodes
            /\ Cardinality(X) = k
            /\ IsCover(X)

\* A solution of two rows was reported on a matrix with a secondary column
\* that one of its rows has a 1 in.
C1_Witness ==
    \E a \in DOMAIN reports :
        /\ reports[a][1] >= 2
        /\ \E c \in Secondary : Hits(ReportRows(reports[a]), c) # {}

\* The rows of the matrix: an addRow call without indices appends no node.
MatrixRows == {i \in DOMAIN rows : rows[i] # << >>}

\* The exact covers of the glossary: any rows covering the primary columns
\* once and the secondary columns at most once.
AllCovers == {X \in SUBSET MatrixRows : IsCover(X)}

\* The exact covers in which every chosen row has a 1 in a primary column.
PrimaryCovers == {X \in AllCovers : \A i \in X : RowCols(i) \cap Primary # {}}

\* C2 as stated: when the top-level search has returned, the sink has been
\* invoked with exactly the row sets that cover every primary column once and
\* every secondary column at most once.
C2_AsStated == phase = "done" => ReportedSets(reports) = AllCovers

\* C2 amended: when the top-level search has returned, the sink has been
\* invoked with exactly the exact covers all of whose rows have a 1 in some
\* primary column.
C2_Completeness == phase = "done" => ReportedSets(reports) = PrimaryCovers

\* The search returned after reporting two or more covers, while some row
\* set of the glossary's kind holds a row without a primary column.
C2_Witness ==
    /\ phase = "done"
    /\ Len(reports) >= 2
    /\ AllCovers # PrimaryCovers

\* C3: no two sink invocations of one top-level search report the same set
\* of rows.
C3_NoDuplicates ==
    \A a, b \in DOMAIN reports :
        a # b => ReportRows(reports[a]) # ReportRows(reports[b])

\* Two different covers of two rows or more each were reported.
C3_Witness ==
    \E a, b \in DOMAIN reports :
        /\ a # b
        /\ reports[a][1] >= 2 /\ reports[b][1] >= 2

\* The addresses met following the link f from a until stop is reached.
RECURSIVE Walk(_, _, _, _)
Walk(f, a, stop, seen) ==
    IF a = stop \/ a \in seen \/ a \notin DOMAIN f THEN seen
    ELSE Walk(f, f[a], stop, seen \cup {a})

\* The headers reached from the master header following R, and following L.
RingR == Walk(R, R[0], 0, {})
RingL == Walk(L, L[0], 0, {})

\* The nodes reached from header h following D.
ColumnNodes(h) == Walk(D, D[h], h, {})

\* The nodes currently linked into the vertical ring of their column.
LinkedNodes == UNION {ColumnNodes(h) : h \in Columns}

\* The columns with a cover call outstanding.
Covered == Range(covered)

\* The matrix exists: setColumnNumber has run.
Constructed == phase \in {"build", "search", "done"}

\* The matrix is fully linked: no search is running.
Idle == phase \in {"build", "done"}

\* C4: for every column c that is not covered (a primary header in the
\* master ring or a secondary header without an outstanding cover), in the
\* built matrix and between any two cover/uncover calls of search, cover(c)
\* followed by uncover(c) leaves every link and every live-count as it was.
C4_RoundTrip ==
    Constructed =>
        \A c \in RingR \cup (Secondary \ Covered) :
            Uncover(Cover(Mat, c), c) = Mat

\* In the middle of a search, at depth 1 or deeper, a column that is not
\* covered has rows whose nodes cover(c) unlinks from two other columns.
C4_Witness ==
    /\ Searching /\ Len(stack) >= 2
    /\ \E c \in RingR \cup (Secondary \ Covered) :
         LET m == Cover(Mat, c)
         IN  Cardinality({h \in Columns : m.S[h] # S[h]}) >= 2

\* C5: every search call returns with every link and live-count as it was
\* when the call was entered, and after the top-level call the matrix is
\* the one construction produced.
C5_SearchRestores ==
    /\ \A a \in DOMAIN stack : stack[a].pc = "exit" => Mat = stack[a].entry
    /\ phase = "done" => Mat = Built(prim, NumCols - prim, rows)

\* A recursive search call is about to return after trying a row of the
\* column it selected.
C5_Witness ==
    /\ Searching /\ Top.pc = "exit" /\ Top.k >= 1
    /\ Top.c # NULL /\ D[Top.c] # Top.c

\* A primary column without any row.
EmptyPrimary == {c \in Primary : Hits(DOMAIN rows, c) = {}}

\* C6: if some primary column has no row with a 1 in it, the sink is never
\* invoked.
C6_Unsatisfiable == EmptyPrimary # {} => reports = << >>

\* A search over two rows or more has returned on a matrix with an empty
\* primary column and a primary column that is not empty.
C6_Witness ==
    /\ phase = "done" /\ Len(rows) >= 2
    /\ EmptyPrimary # {} /\ Primary \ EmptyPrimary # {}

LRSymmetric(n) ==
    /\ L[n] \in DOMAIN R /\ R[L[n]] = n
    /\ R[n] \in DOMAIN L /\ L[R[n]] = n

UDSymmetric(n) ==
    /\ U[n] \in DOMAIN D /\ D[U[n]] = n
    /\ D[n] \in DOMAIN U /\ U[D[n]] = n

\* C7 as stated: whenever no cover or uncover call is in progress, every
\* header and node is the right neighbour of its left neighbour and the left
\* of its right one, and likewise up and down.  (The master header has no
\* column: its U and D are never assigned, and are left out here.)
C7_AsStated ==
    Constructed =>
        /\ \A n \in DOMAIN L : LRSymmetric(n)
        /\ \A n \in DOMAIN L \ {0} : UDSymmetric(n)

\* C7 amended: whenever no cover or uncover call is in progress, the master
\* header, every header in the master ring, every secondary header and every
\* row node is left/right symmetric, and every column header and every node
\* linked into its column is up/down symmetric; while no search is running
\* this holds of every header and node (but for U and D of the master).
C7_LinkSymmetry ==
    Constructed =>
        /\ \A n \in {0} \cup RingR \cup Secondary \cup Nodes : LRSymmetric(n)
        /\ \A n \in Columns \cup LinkedNodes : UDSymmetric(n)
        /\ Idle => /\ \A n \in DOMAIN L : LRSymmetric(n)
                   /\ \A n \in DOMAIN L \ {0} : UDSymmetric(n)

\* In the middle of a search a header is out of the master ring, a node is
\* out of its column, and other headers and nodes are still linked.
C7_Witness ==
    /\ Searching
    /\ Primary \ RingR # {} /\ RingR # {}
    /\ Nodes \ LinkedNodes # {} /\ LinkedNodes # {}

\* C8: whenever no cover or uncover call is in progress, the live-count S
\* of every column header, covered or not, is the number of nodes reached
\* from it following D.
C8_LiveCount ==
    Constructed => \A h \in Columns : S[h] = Cardinality(ColumnNodes(h))

\* In the middle of a search a column that is not covered has lost some but
\* not all of its nodes.
C8_Witness ==
    /\ Searching
    /\ \E h \in Columns \ Covered :
         /\ S[h] >= 1
         /\ S[h] < Cardinality(Hits(DOMAIN rows, h))

\* C9: whenever no cover or uncover call is in progress, the headers reached
\* from the master header following R, and following L, are the primary
\* headers without an outstanding cover; a secondary header is never among
\* them and its L and R point to itself.
C9_MasterRing ==
    Constructed =>
        /\ RingR = Primary \ Covered
        /\ RingL = Primary \ Covered
        /\ \A h \in Secondary : L[h] = h /\ R[h] = h /\ h \notin RingR \cup RingL

\* In the middle of a search a primary and a secondary column are covered
\* and another primary column is still in the master ring.
C9_Witness ==
    /\ Searching
    /\ Covered \cap Primary # {} /\ Covered \cap Secondary # {}
    /\ RingR # {}

\* C10: with one addRow call given the same indices in another order, the
\* structural invariants hold throughout and the search reports the same
\* solutions, as sets of rows, as many times.
C10_RowOrder ==
    /\ run = 2 => C7_LinkSymmetry /\ C8_LiveCount /\ C9_MasterRing
    /\ run = 2 /\ phase = "done" =>
         /\ ReportedSets(reports) = ReportedSets(first)
         /\ Len(reports) = Len(first)

\* The search on the reordered rows has returned with two solutions or more,
\* reported through other nodes than in the first run.
C10_Witness ==
    /\ run = 2 /\ phase = "done"
    /\ Len(reports) >= 2
    /\ reports # first

\* The running search call is at one of its steps: each has a next one,
\* decided by the loop or termination test it stands at.
CanStep ==
    /\ stack # << >>
    /\ Top.pc \in {"enter", "row", "cover", "back", "uncover", "exit"}
    /\ Top.pc \in {"row", "cover", "uncover"} => Top.r \in Nodes \cup Columns
    /\ Top.pc \in {"cover", "uncover"} => Top.j \in Nodes
    /\ Top.pc = "back" => Top.k \in DOMAIN O /\ O[Top.k] \in Nodes

\* C11: on every matrix built from valid input the top-level search call,
\* once made, always has a next step until it returns, and eventually
\* returns: the cover, uncover and sink steps it takes are finitely many.
C11_Termination ==
    /\ [](phase = "search" => CanStep)
    /\ (phase = "search") ~> (phase = "done")

\* The top-level call has returned from a matrix of two rows or more after
\* recursing and invoking the sink.
C11_Witness ==
    /\ phase = "done" /\ Len(rows) >= 2
    /\ \E a \in DOMAIN reports : reports[a][1] >= 2

\* C12: the search call at position a of the call stack has depth a - 1,
\* and no depth exceeds p; a call that is about to store a row, or has
\* stored one, has a depth below p, which is an index of the result vector
\* of size p + s; the sink is never handed a depth above p.
C12_DepthBound ==
    /\ Constructed => DOMAIN O = 0..(NumCols - 1)
    /\ \A a \in DOMAIN stack :
         /\ stack[a].k = a - 1
         /\ stack[a].k <= prim
         /\ (stack[a].pc \in {"cover", "back", "uncover"}
               \/ (stack[a].pc = "row" /\ stack[a].r # stack[a].c))
            => (stack[a].k < prim /\ stack[a].k \in DOMAIN O)
    /\ \A a \in DOMAIN reports : reports[a][1] <= prim

\* With two primary columns and a secondary one, a search call of depth p
\* has invoked the sink and is about to return.
C12_Witness ==
    /\ Searching /\ prim >= 2 /\ NumCols > prim
    /\ Top.k = prim /\ Top.pc = "exit"
    /\ reports # << >> /\ reports[Len(reports)][1] = prim

\* The nodes the sink visits from o: o, o->R, o->R->R, ... until o again.
RowRing(o) == {o} \cup Walk(R, R[o], o, {})

\* C13: during and after search every row node has the L, R and C that
\* construction gave it, and for every sink invocation and every i < k,
\* following R from O[i] leads back to O[i] through exactly the nodes of one
\* appended row, one node for each column index passed to addRow for it.
C13_RowChains ==
    phase \in {"search", "done"} =>
        LET B == Built(prim, NumCols - prim, rows) IN
        /\ \A n \in Nodes : L[n] = B.L[n] /\ R[n] = B.R[n] /\ C[n] = B.C[n]
        /\ \A a \in DOMAIN reports : \A i \in 0..(reports[a][1] - 1) :
             LET o == reports[a][2][i]
                 row == RowOfNode(o)
             IN  /\ o \in Nodes
                 /\ \E n \in RowRing(o) : R[n] = o
                 /\ RowRing(o) = RowNodes(row)
                 /\ Cardinality(RowRing(o)) = Len(rows[row])
                 /\ {N[C[n]] : n \in RowRing(o)} = RowCols(row)

\* The sink has been handed two rows of two nodes each, while columns of
\* those rows are covered.
C13_Witness ==
    /\ Searching /\ reports # << >>
    /\ LET rep == reports[Len(reports)]
       IN  /\ rep[1] >= 2
           /\ \A i \in 0..(rep[1] - 1) : Cardinality(RowRing(rep[2][i])) = 2
    /\ Top.pc = "exit" /\ Top.c = NULL
    /\ Cardinality(Covered) >= 3

\* The headers of the master ring of m in the order met following R from
\* the master header.
RECURSIVE RingFrom(_, _, _)
RingFrom(m, h, sq) ==
    IF h = 0 \/ h \in Range(sq) THEN sq ELSE RingFrom(m, m.R[h], Append(sq, h))

RingSeq(m) == RingFrom(m, m.R[0], << >>)

\* The search calls that have got past the termination test with a master
\* ring that was not empty.
Selecting == {a \in DOMAIN stack :
                stack[a].pc # "enter" /\ RingSeq(stack[a].entry) # << >>}

\* C14: a search call entered with a non-empty master ring selects and
\* covers a header of that ring whose live-count is the least in the ring,
\* the first one of that count met following R from the master header.
C14_Selection ==
    \A a \in Selecting :
        LET f == stack[a]
            e == f.entry
            sq == RingSeq(e)
        IN  /\ f.c # NULL
            /\ f.pc # "exit" => f.c \in Covered
            /\ \E x \in DOMAIN sq :
                 /\ sq[x] = f.c
                 /\ \A y \in DOMAIN sq : e.S[sq[y]] >= e.S[f.c]
                 /\ \A y \in 1..(x - 1) : e.S[sq[y]] > e.S[f.c]

\* A search call below the top level has selected a column that is neither
\* the first nor the last of a ring of three headers or more, and shares its
\* live-count with a later one.
C14_Witness ==
    /\ Searching /\ Top.k >= 1 /\ Top.pc = "row"
    /\ LET e == Top.entry
           sq == RingSeq(e)
       IN  /\ Len(sq) >= 3
           /\ \E x \in 2..(Len(sq) - 1) :
                /\ sq[x] = Top.c
                /\ \E y \in (x + 1)..Len(sq) : e.S[sq[y]] = e.S[Top.c]

\* Some header in the master ring of m has no live node.
ZeroInRing(m) == \E h \in Range(RingSeq(m)) : m.S[h] = 0

\* The innermost search call was entered with a zero live-count in the ring.
Pruned == Searching /\ ZeroInRing(Top.entry)

\* C15: a search call entered while some header in the master ring has
\* live-count zero selects a column of live-count zero, covers it, finds its
\* row loop at its end at once, uncovers the column and returns with the
\* matrix as it was at entry; none of its steps invokes the sink, stores a
\* row or makes a recursive call.
C15_Pruning ==
    [][Pruned =>
        /\ reports' = reports /\ O' = O
        /\ Len(stack') <= Len(stack)
        /\ Top.pc \in {"enter", "row", "exit"}
        /\ Top.pc = "enter" =>
              /\ Len(stack') = Len(stack)
              /\ Top'.pc = "row" /\ Top'.r = Top'.c
              /\ Top.entry.S[Top'.c] = 0
              /\ Mat' = Cover(Mat, Top'.c)
              /\ covered' = Append(covered, Top'.c)
        /\ Top.pc = "row" =>
              /\ Len(stack') = Len(stack)
              /\ Top'.pc = "exit"
              /\ Mat' = Top.entry
              /\ covered' = SubSeq(covered, 1, Len(covered) - 1)
        /\ Top.pc = "exit" =>
              /\ stack' = SubSeq(stack, 1, Len(stack) - 1)
              /\ Mat' = Mat /\ covered' = covered
    ]_vars

\* A search call below the top level returns pruned: at its entry the ring
\* held a header of live-count zero after one of a greater live-count.
C15_Witness ==
    /\ Pruned /\ Top.k >= 1 /\ Top.pc = "exit"
    /\ LET e == Top.entry
           sq == RingSeq(e)
       IN  /\ Len(sq) >= 2
           /\ e.S[sq[1]] >= 1
           /\ Top.c # sq[1]

\* C16: a step of search writes no slot of O but O[k] of the innermost
\* call, whose k is greater than that of every call below it; every call
\* that has stored a row r and has not yet moved to the next one finds r in
\* its slot O[k], so that when search(k+1) has returned, the r read back
\* from O[k] is the r stored before, and the slots below k are those of the
\* calls below, unchanged.
C16_SlotStability ==
    [][Searching =>
        /\ DOMAIN O' = DOMAIN O
        /\ \A i \in DOMAIN O :
             O'[i] # O[i] =>
                /\ i = Top.k
                /\ \A a \in 1..(Len(stack) - 1) : stack[a].k < i
        /\ \A a \in DOMAIN stack' :
             stack'[a].pc \in {"cover", "back", "uncover"} =>
                O'[stack'[a].k] = stack'[a].r
        /\ Top.pc = "back" => O[Top.k] = Top.r /\ Top'.r = Top.r
    ]_vars

\* search(k+1) has returned to a call of depth 1 or more, which has yet to
\* read its row back, after rows were stored and replaced in deeper slots.
C16_Witness ==
    /\ Searching /\ Top.pc = "back" /\ Top.k >= 1
    /\ Top.k + 1 \in DOMAIN O /\ O[Top.k + 1] # NULL
    /\ \A i \in 0..Top.k : O[i] # NULL

\* The innermost call stands before a cover call, before an uncover call.
CoverPoint ==
    /\ Searching
    /\ \/ Top.pc = "enter" /\ ~Terminated(Mat)
       \/ Top.pc = "cover" /\ Top.j # Top.r

UncoverPoint ==
    /\ Searching
    /\ \/ Top.pc = "uncover" /\ Top.j # Top.r
       \/ Top.pc = "row" /\ Top.r = Top.c

\* The columns of the nodes from n to the right, up to stop and without it.
RECURSIVE ColsBetween(_, _, _)
ColsBetween(n, stop, sq) ==
    IF n = stop \/ Len(sq) > Cardinality(Nodes) THEN sq
    ELSE ColsBetween(R[n], stop, Append(sq, C[n]))

\* The covers a search call has outstanding, oldest first: the selected
\* column, then the other columns of the tried row from r->R rightwards, as
\* far as the cover loop has got or the uncover loop has left them.
Outstanding(f) ==
    CASE f.pc \in {"enter", "exit"} -> << >>
      [] f.pc = "row" -> <<f.c>>
      [] f.pc = "cover" -> <<f.c>> \o ColsBetween(R[f.r], f.j, << >>)
      [] f.pc = "back" -> <<f.c>> \o ColsBetween(R[f.r], f.r, << >>)
      [] f.pc = "uncover" ->
            <<f.c>> \o (IF f.j = f.r THEN << >>
                        ELSE ColsBetween(R[f.r], R[f.j], << >>))

RECURSIVE OutstandingUpTo(_)
OutstandingUpTo(a) ==
    IF a = 0 THEN << >> ELSE OutstandingUpTo(a - 1) \o Outstanding(stack[a])

RECURSIVE RelinkRowForward(_, _, _)
RelinkRowForward(m, i, j) ==
    IF j = i THEN m
    ELSE LET m1 == [m  EXCEPT !.S[m.C[j]] = @ + 1]
             m2 == [m1 EXCEPT !.U[m1.D[j]] = j]
             m3 == [m2 EXCEPT !.D[m2.U[j]] = j]
         IN  RelinkRowForward(m3, i, m3.R[j])

RECURSIVE RelinkForward(_, _, _)
RelinkForward(m, c, i) ==
    IF i = c THEN m
    ELSE LET m1 == RelinkRowForward(m, i, m.R[i])
         IN  RelinkForward(m1, c, m1.D[i])

UncoverSameOrder(m, c) ==
    LET m1 == RelinkForward(m, c, m.D[c])
        m2 == [m1 EXCEPT !.R[m1.L[c]] = c]
    IN  [m2 EXCEPT !.L[m2.R[c]] = c]

\* The nodes cover(c) unlinks: those of the rows in c's chain, outside c.
Unlinked(c) ==
    {n \in Nodes : C[n] # c /\ \E i \in ColumnNodes(c) : RowOfNode(n) = RowOfNode(i)}

\* The columns that may be covered: not covered now.
Coverable == RingR \cup (Secondary \ Covered)

\* C18 as stated: whenever cover(c) unlinks two nodes or more, relinking
\* them in the order cover unlinked them, top to bottom and left to right,
\* leaves a link or a live-count different from the state before cover(c).
C18_AsStated ==
    Constructed =>
        \A c \in Coverable :
            Cardinality(Unlinked(c)) >= 2 =>
                UncoverSameOrder(Cover(Mat, c), c) # Mat

\* C18 amended: the reverse traversal of uncover(c) restores every link and
\* live-count of the state before cover(c), and it is not the only order
\* that does: relinking the same nodes top to bottom and left to right
\* restores that state as well.
C18_ReverseSuffices ==
    Constructed =>
        \A c \in Coverable :
            LET m == Cover(Mat, c)
            IN  /\ Uncover(m, c) = Mat
                /\ UncoverSameOrder(m, c) = Mat

\* In the middle of a search cover(c) would unlink two nodes of one column,
\* next to each other in its chain, and a node of another column.
C18_Witness ==
    /\ Searching
    /\ \E c \in Coverable :
         /\ Cardinality({C[n] : n \in Unlinked(c)}) >= 2
         /\ \E n1, n2 \in Unlinked(c) : n1 # n2 /\ D[n1] = n2

\* The nodes of column c of m in the order met following D from the header.
RECURSIVE ChainFrom(_, _, _, _)
ChainFrom(m, c, i, sq) ==
    IF i = c \/ i \in Range(sq) THEN sq ELSE ChainFrom(m, c, m.D[i], Append(sq, i))

ChainSeq(m, c) == ChainFrom(m, c, m.D[c], << >>)

\* The search calls that have selected a column.
Selected == {a \in DOMAIN stack : stack[a].c # NULL}

\* The rows a search call tries are, in order and without repetition, the
\* nodes of the selected column's chain as it was when the call selected it.
TriesChain(f) ==
    LET chain == ChainSeq(f.entry, f.c)
        n == Len(f.tried)
    IN  /\ n <= Len(chain) /\ f.tried = SubSeq(chain, 1, n)
        /\ f.pc = "row" => f.r = IF n < Len(chain) THEN chain[n + 1] ELSE f.c
        /\ f.pc \in {"cover", "back", "uncover"} => n >= 1 /\ f.r = chain[n]
        /\ f.pc = "exit" => f.tried = chain

\* The tried row has a node in another column, and search(k+1) is running
\* or has just returned.
Recursing(f) == f.pc = "back" /\ R[f.r] # f.r

\* C19 as stated: each call tries exactly the rows of the selected column's
\* chain at selection, once each and top to bottom, and during the recursion
\* for a tried row with other columns that row's node is out of c's chain
\* and c's live-count differs from the one at selection.
C19_AsStated ==
    \A a \in Selected :
        LET f == stack[a]
        IN  /\ TriesChain(f)
            /\ Recursing(f) =>
                  /\ f.r \notin ColumnNodes(f.c)
                  /\ S[f.c] # f.entry.S[f.c]

\* C19 amended: each call tries exactly the rows of the selected column's
\* chain at selection, once each and top to bottom; while c is covered,
\* the recursion included, c's chain and live-count stay as they were at
\* selection (the covers remove the tried row's nodes from other columns).
C19_RowIteration ==
    \A a \in Selected :
        LET f == stack[a]
        IN  /\ TriesChain(f)
            /\ f.pc # "exit" =>
                  /\ ChainSeq(Mat, f.c) = ChainSeq(f.entry, f.c)
                  /\ S[f.c] = f.entry.S[f.c]

\* A call below the top level is back from the recursion for the second row
\* of its column; the row has a node in another column, whose live-count
\* its cover has changed.
C19_Witness ==
    /\ Searching /\ Top.k >= 1 /\ Recursing(Top)
    /\ Len(Top.tried) = 2
    /\ \E h \in Columns \ {Top.c} : S[h] # Top.entry.S[h]

\* The nodes the loops of cover(c) unlink on m, in order: for each i from
\* c->D downwards, each j from i->R rightwards.
RECURSIVE TrailRow(_, _, _, _)
TrailRow(m, i, j, sq) ==
    IF j = i \/ Len(sq) > Cardinality(DOMAIN m.C) THEN sq
    ELSE TrailRow(m, i, m.R[j], Append(sq, j))

RECURSIVE TrailLoop(_, _, _, _)
TrailLoop(m, c, i, sq) ==
    IF i = c \/ Len(sq) > Cardinality(DOMAIN m.C) THEN sq
    ELSE TrailLoop(m, c, m.D[i], TrailRow(m, i, m.R[i], sq))

CoverTrail(m, c) == TrailLoop(m, c, m.D[c], << >>)

\* The column of the cover or uncover call the innermost call stands before.
CallColumn ==
    IF Top.pc = "enter" THEN SelectColumn(Mat)
    ELSE IF Top.pc = "row" THEN Top.c ELSE C[Top.j]

NoRepeat(sq) == \A x, y \in DOMAIN sq : x # y => sq[x] # sq[y]

\* C20: no live-count is ever negative; every cover call unlinks nodes that
\* are linked into their columns, each of them once, and every uncover call
\* relinks nodes that are out of their columns, each of them once: between
\* two relinks a node is unlinked once at most.
C20_NoDoubleRemoval ==
    /\ \A h \in DOMAIN S : S[h] >= 0
    /\ CoverPoint =>
          LET t == CoverTrail(Mat, CallColumn)
          IN  NoRepeat(t) /\ Range(t) \subseteq LinkedNodes
    /\ UncoverPoint =>
          LET t == CoverTrail(Mat, CallColumn)
          IN  NoRepeat(t) /\ Range(t) \cap LinkedNodes = {}

\* Below the top level, with nodes already out of their columns, a cover
\* call is about to unlink two nodes or more from a column it will leave
\* with live-count zero.
C20_Witness ==
    /\ CoverPoint /\ Top.k >= 1
    /\ Nodes \ LinkedNodes # {}
    /\ LET t == CoverTrail(Mat, CallColumn)
       IN  \E x, y \in DOMAIN t :
             x # y /\ C[t[x]] = C[t[y]] /\ S[C[t[x]]] = 2

====
